---- MODULE Spec2Model ----
(***************************************************************************)
(* A model of flask.app (src/src/flask/app.py): the construction of the    *)
(* Flask application object, the setupmethod guard around its registration *)
(* methods, and the parts of the dispatch engine (context stacks, teardown *)
(* hooks) the application object's registries feed.                        *)
(*                                                                         *)
(* An object is a function from the names of the attributes assigned so    *)
(* far to their values: reading an attribute outside its DOMAIN is         *)
(* Python's AttributeError.                                                *)
(***************************************************************************)
EXTENDS Naturals, Sequences, FiniteSets, TLC

VARIABLES
    args,     \* the arguments Flask.__init__ was called with
    env,      \* what the collaborators return: find_package, get_debug_flag, Map()
    pc,       \* the statement of Flask.__init__ that runs next
    self,     \* the application object: attribute name -> value
    exc,      \* the exception that ended construction, or NoExc
    last,     \* the outcome of the last setupmethod-wrapped call
    calls,    \* the number of setupmethod-wrapped calls made so far
    req,      \* the request in flight: position, handler outcome, hooks run
    app_ctx_stack,  \* execution unit -> stack of application contexts
    pushed,   \* execution unit -> number of application contexts pushed so far
    popped    \* execution unit -> number of application contexts popped so far

vars == <<args, env, pc, self, exc, last, calls, req, app_ctx_stack, pushed, popped>>

-----------------------------------------------------------------------------
(* Values *)

None == [tag |-> "None"]

NoExc == [type |-> "none", line |-> 0]

Exc(type, line) == [type |-> type, line |-> line]

\* A file-system path: absolute or not, and its components.
Path(abs, parts) == [tag |-> "path", abs |-> abs, parts |-> parts]

\* A str, where None is possible too.
Str(s) == [tag |-> "str", s |-> s]

\* A function object: a view function, a hook, an error handler.
Fn(name) == [tag |-> "function", name |-> name]

SetAttr(obj, a, v) == (a :> v) @@ obj

HasAttr(obj, a) == a \in DOMAIN obj

\* The outcome of a step: the object as it is left, and the exception raised.
Ok(obj) == [obj |-> obj, exc |-> NoExc]

Raised(obj, type, line) == [obj |-> obj, exc |-> Exc(type, line)]

-----------------------------------------------------------------------------
(* os.path *)

\* The working directory of the process.
Cwd == Path(TRUE, <<"work">>)

isabs(p) == p.abs

join(p, q) == IF q.abs THEN q ELSE Path(p.abs, p.parts \o q.parts)

RECURSIVE NormParts(_, _)
NormParts(done, rest) ==
    IF rest = <<>> THEN done
    ELSE LET c == Head(rest) IN
         IF c = "." THEN NormParts(done, Tail(rest))
         ELSE IF c = ".."
              THEN NormParts(IF done = <<>> THEN <<>>
                             ELSE SubSeq(done, 1, Len(done) - 1), Tail(rest))
              ELSE NormParts(Append(done, c), Tail(rest))

abspath(p) == LET q == IF isabs(p) THEN p ELSE join(Cwd, p)
              IN  Path(TRUE, NormParts(<<>>, q.parts))

Rel(name) == Path(FALSE, <<name>>)

-----------------------------------------------------------------------------
(* Flask.__init__, statement by statement *)

\* _PackageBoundObject.__init__(self, import_name, template_folder, root_path)
PackageBoundInit(obj, a) ==
    Ok(SetAttr(SetAttr(SetAttr(obj, "import_name", a.import_name),
                       "template_folder", a.template_folder),
               "root_path", a.root_path))

\* if static_url_path is not None: ...; if static_folder is not None: ...
SetStatic(obj, a) ==
    LET o1 == IF a.static_url_path # None
              THEN SetAttr(obj, "static_url_path", a.static_url_path) ELSE obj
        o2 == IF a.static_folder # None
              THEN SetAttr(o1, "static_folder", a.static_folder) ELSE o1
    IN  Ok(o2)

\* find_package(import_name): the prefix the package is installed under (None
\* when it is not installed) and the folder that holds the package.
find_package(e, import_name) == e.found

\* Flask.auto_find_instance_path: [val, exc]
auto_find_instance_path(obj, e) ==
    IF ~HasAttr(obj, "import_name")
    THEN [val |-> None, exc |-> Exc("AttributeError", 265)]
    ELSE LET fp == find_package(e, obj.import_name) IN
         IF fp.prefix = None
         THEN [val |-> abspath(join(fp.package_path, Rel("instance"))), exc |-> NoExc]
         ELSE IF ~HasAttr(obj, "name")
              THEN [val |-> None, exc |-> Exc("AttributeError", 270)]
              ELSE [val |-> abspath(join(join(fp.prefix, Rel("var")),
                                         Rel(obj.name \o "-instance"))),
                    exc |-> NoExc]

ResolveInstancePath_NoCheck(obj, a, e) ==
    IF a.instance_path = None
    THEN LET r == auto_find_instance_path(obj, e) IN
         IF r.exc # NoExc THEN [obj |-> obj, exc |-> r.exc]
         ELSE Ok(SetAttr(obj, "instance_path", r.val))
    ELSE Ok(SetAttr(obj, "instance_path", a.instance_path))

\* if instance_path is None: ... elif not os.path.isabs(instance_path): raise
\* self.instance_path = instance_path
ResolveInstancePath(obj, a, e) ==
    IF a.instance_path = None
    THEN LET r == auto_find_instance_path(obj, e) IN
         IF r.exc # NoExc THEN [obj |-> obj, exc |-> r.exc]
         ELSE Ok(SetAttr(obj, "instance_path", r.val))
    ELSE IF ~isabs(a.instance_path)
         THEN Raised(obj, "ValueError", 186)
         ELSE Ok(SetAttr(obj, "instance_path", a.instance_path))

\* Flask.make_config
make_config(obj, instance_relative) ==
    [root_path |-> IF instance_relative THEN obj.instance_path ELSE obj.root_path]

\* self.config = self.make_config(instance_relative_config)
MakeConfig(obj, a) ==
    Ok(SetAttr(obj, "config", make_config(obj, a.instance_relative_config)))

\* The converter table of the routing library, as Map() may hand it over.
LibraryConverters ==
    [default |-> "UnicodeConverter", string |-> "UnicodeConverter",
     any |-> "AnyConverter", path |-> "PathConverter", int |-> "IntegerConverter",
     float |-> "FloatConverter", uuid |-> "UUIDConverter"]

\* Map(): no rules yet
Map(e) == [rules |-> <<>>, converters |-> e.map_converters,
           host_matching |-> FALSE, subdomain_matching |-> FALSE]

Converters_DefaultIsPath(c) ==
    ("uuid" :> "UUIDConverter") @@ ("float" :> "FloatConverter")
    @@ ("int" :> "IntegerConverter") @@ ("path" :> "PathConverter")
    @@ ("any" :> "AnyConverter") @@ ("string" :> "UnicodeConverter")
    @@ ("default" :> "PathConverter") @@ c

\* self.url_map.converters["default"] = UnicodeConverter ...
Converters(c) ==
    ("uuid" :> "UUIDConverter") @@ ("float" :> "FloatConverter")
    @@ ("int" :> "IntegerConverter") @@ ("path" :> "PathConverter")
    @@ ("any" :> "AnyConverter") @@ ("string" :> "UnicodeConverter")
    @@ ("default" :> "UnicodeConverter") @@ c

\* self._view_functions = {} ... self.url_map.converters["uuid"] = UUIDConverter
CreateUrlMap(obj, a, e) ==
    LET m  == Map(e)
        um == [m EXCEPT !.host_matching = a.host_matching,
                        !.subdomain_matching = a.subdomain_matching,
                        !.converters = Converters(m.converters)]
    IN  Ok(SetAttr(SetAttr(SetAttr(obj, "_view_functions", <<>>),
                           "_error_handlers", <<>>),
                   "url_map", um))

\* self.blueprints = {} ... self._before_first_request_functions = []
CreateRegistries(obj) ==
    Ok(SetAttr(SetAttr(SetAttr(SetAttr(SetAttr(SetAttr(obj,
        "_before_request_funcs", <<>>),
        "_after_request_funcs", <<>>),
        "_teardown_request_funcs", <<>>),
        "_teardown_appcontext_funcs", <<>>),
        "_got_first_request", FALSE),
        "_before_first_request_functions", <<>>))

-----------------------------------------------------------------------------
(* setupmethod and the registration methods it guards *)

Methods == {"add_url_rule", "before_request", "after_request",
            "teardown_request", "teardown_appcontext", "errorhandler"}

\* dict.setdefault(key, []).append(f)
AppendUnder(d, key, f) ==
    (key :> (IF key \in DOMAIN d THEN Append(d[key], f) ELSE <<f>>)) @@ d

\* The body of a registration method: [obj, ret].  x is the rule (with its
\* endpoint, host and view function), the hook or the error handler registered.
Register(obj, method, x) ==
    CASE method = "add_url_rule" ->
           LET um == obj.url_map
               o1 == SetAttr(obj, "url_map",
                             [um EXCEPT !.rules = Append(um.rules,
                                 [rule |-> x.rule, endpoint |-> x.endpoint,
                                  host |-> x.host])])
           IN  [obj |-> SetAttr(o1, "_view_functions",
                                (x.endpoint :> x.view_func) @@ obj["_view_functions"]),
                ret |-> None]
      [] method = "before_request" ->
           [obj |-> SetAttr(obj, "_before_request_funcs",
                            AppendUnder(obj["_before_request_funcs"], None, x)),
            ret |-> x]
      [] method = "after_request" ->
           [obj |-> SetAttr(obj, "_after_request_funcs",
                            AppendUnder(obj["_after_request_funcs"], None, x)),
            ret |-> x]
      [] method = "teardown_request" ->
           [obj |-> SetAttr(obj, "_teardown_request_funcs",
                            AppendUnder(obj["_teardown_request_funcs"], None, x)),
            ret |-> x]
      [] method = "teardown_appcontext" ->
           [obj |-> SetAttr(obj, "_teardown_appcontext_funcs",
                            Append(obj["_teardown_appcontext_funcs"], x)),
            ret |-> x]
      [] method = "errorhandler" ->
           [obj |-> SetAttr(obj, "_error_handlers",
                            (x.code :> x.handler) @@ obj["_error_handlers"]),
            ret |-> x.handler]

SetupRejected_Never(obj) == FALSE

SetupRejected_BeforeFirstRequest(obj) ==
    obj.debug /\ ~obj["_got_first_request"]

\* if self.debug and self._got_first_request:
SetupRejected(obj) == obj.debug /\ obj["_got_first_request"]

wrapper_func_CheckAfter(obj, method, x) ==
    LET r == Register(obj, method, x) IN
    IF SetupRejected(obj)
    THEN [obj |-> r.obj, exc |-> Exc("AssertionError", 62), invoked |-> 1, ret |-> None]
    ELSE [obj |-> r.obj, exc |-> NoExc, invoked |-> 1, ret |-> r.ret]

\* setupmethod.wrapper_func: [obj, exc, invoked, ret]; invoked counts the calls
\* of the wrapped function f.
wrapper_func(obj, method, x) ==
    IF ~HasAttr(obj, "debug")
    THEN [obj |-> obj, exc |-> Exc("AttributeError", 61), invoked |-> 0, ret |-> None]
    ELSE IF obj.debug /\ ~HasAttr(obj, "_got_first_request")
    THEN [obj |-> obj, exc |-> Exc("AttributeError", 61), invoked |-> 0, ret |-> None]
    ELSE IF SetupRejected(obj)
    THEN [obj |-> obj, exc |-> Exc("AssertionError", 62), invoked |-> 0, ret |-> None]
    ELSE LET r == Register(obj, method, x)
         IN  [obj |-> r.obj, exc |-> NoExc, invoked |-> 1, ret |-> r.ret]

NoCall == [method |-> "none", x |-> None, exc |-> NoExc, invoked |-> 0, ret |-> None,
           after_first |-> FALSE]

\* The record of a wrapped call made on obj with outcome r; after_first tells
\* whether the first request had been dispatched when it was made.
Called(obj, method, x, r) ==
    [method |-> method, x |-> x, exc |-> r.exc, invoked |-> r.invoked, ret |-> r.ret,
     after_first |-> HasAttr(obj, "_got_first_request") /\ obj["_got_first_request"]]

-----------------------------------------------------------------------------
(* Flask.__init__, continued *)

\* _PackageBoundObject.has_static_folder
has_static_folder(obj) == HasAttr(obj, "static_folder")

\* _PackageBoundObject.static_url_path
static_url_path(obj) ==
    IF HasAttr(obj, "static_url_path") THEN obj.static_url_path.s
    ELSE "/" \o obj.static_folder.s

StaticRule(obj, a) ==
    [rule |-> static_url_path(obj) \o "/<path:filename>", endpoint |-> "static",
     host |-> a.static_host, view_func |-> Fn("send_static_file")]

\* if self.has_static_folder: self.add_url_rule(...): the wrapper_func outcome
AddStaticRule(obj, a) ==
    IF has_static_folder(obj)
    THEN wrapper_func(obj, "add_url_rule", StaticRule(obj, a))
    ELSE [obj |-> obj, exc |-> NoExc, invoked |-> 0, ret |-> None]

\* self._logger = None ... self._cli_commands = {}
Finish(obj, e) ==
    Ok(SetAttr(SetAttr(SetAttr(SetAttr(obj, "_logger", None),
                               "name", obj.import_name),
                       "debug", e.debug_flag),
               "_cli_commands", <<>>))

\* Flask.__init__ as a whole: [obj, exc]
Construct(a, e) ==
    LET r1 == PackageBoundInit(<<>>, a)
        r2 == IF r1.exc # NoExc THEN r1 ELSE SetStatic(r1.obj, a)
        r3 == IF r2.exc # NoExc THEN r2 ELSE ResolveInstancePath(r2.obj, a, e)
        r4 == IF r3.exc # NoExc THEN r3 ELSE MakeConfig(r3.obj, a)
        r5 == IF r4.exc # NoExc THEN r4 ELSE CreateUrlMap(r4.obj, a, e)
        r6 == IF r5.exc # NoExc THEN r5 ELSE CreateRegistries(r5.obj)
        w  == AddStaticRule(r6.obj, a)
        r7 == IF r6.exc # NoExc THEN r6 ELSE [obj |-> w.obj, exc |-> w.exc]
        r8 == IF r7.exc # NoExc THEN r7 ELSE Finish(r7.obj, e)
    IN  r8

-----------------------------------------------------------------------------
(* Inputs *)

\* The most setupmethod-wrapped calls made on one application.
MaxCalls == 3

AbsInstance == Path(TRUE, <<"srv", "inst">>)

CtorArgs ==
    [import_name : {"app"},
     static_url_path : {None, Str("/assets")},
     static_folder : {None, Str("static")},
     static_host : {None},
     host_matching : BOOLEAN,
     subdomain_matching : BOOLEAN,
     template_folder : {"templates"},
     instance_path : {None, AbsInstance, Path(TRUE, <<"srv", "..", "inst">>),
                      Rel("inst")},
     instance_relative_config : BOOLEAN,
     root_path : {Path(TRUE, <<"app">>)}]

Envs ==
    [found : {[prefix |-> None, package_path |-> Path(TRUE, <<"app">>)],
              [prefix |-> Path(TRUE, <<"usr">>),
               package_path |-> Path(TRUE, <<"usr", "lib", "app">>)]},
     debug_flag : BOOLEAN,
     map_converters : {<<>>, LibraryConverters}]

Hooks == {Fn("h1"), Fn("h2")}

Rules == {[rule |-> "/a", endpoint |-> "a", host |-> None, view_func |-> Fn("view_a")]}

Handlers == {[code |-> 404, handler |-> Fn("not_found")]}

Inputs(method) ==
    CASE method = "add_url_rule" -> Rules
      [] method = "errorhandler" -> Handlers
      [] method \in {"teardown_request", "teardown_appcontext"} -> Hooks
      [] OTHER -> {Fn("h1")}

Idle == [pc |-> "idle", outcome |-> "none", ran |-> <<>>]

-----------------------------------------------------------------------------
(* Construction, one statement group at a time *)

Advance(k, r, next) ==
    /\ pc = k
    /\ self' = r.obj
    /\ exc' = r.exc
    /\ pc' = IF r.exc = NoExc THEN next ELSE "raised"

CtorFrame == UNCHANGED <<args, env, req, app_ctx_stack, pushed, popped>>

DoPackageBoundInit ==
    /\ Advance("pkg", PackageBoundInit(self, args), "static")
    /\ CtorFrame /\ UNCHANGED <<last, calls>>

DoSetStatic ==
    /\ Advance("static", SetStatic(self, args), "instance_path")
    /\ CtorFrame /\ UNCHANGED <<last, calls>>

DoResolveInstancePath ==
    /\ Advance("instance_path", ResolveInstancePath(self, args, env), "config")
    /\ CtorFrame /\ UNCHANGED <<last, calls>>

DoMakeConfig ==
    /\ Advance("config", MakeConfig(self, args), "url_map")
    /\ CtorFrame /\ UNCHANGED <<last, calls>>

DoCreateUrlMap ==
    /\ Advance("url_map", CreateUrlMap(self, args, env), "registries")
    /\ CtorFrame /\ UNCHANGED <<last, calls>>

DoCreateRegistries ==
    /\ Advance("registries", CreateRegistries(self), "static_rule")
    /\ CtorFrame /\ UNCHANGED <<last, calls>>

DoAddStaticRule ==
    /\ LET w == AddStaticRule(self, args) IN
       /\ Advance("static_rule", [obj |-> w.obj, exc |-> w.exc], "finish")
       /\ IF has_static_folder(self)
          THEN /\ last' = Called(self, "add_url_rule", StaticRule(self, args), w)
               /\ calls' = calls + 1
          ELSE UNCHANGED <<last, calls>>
    /\ CtorFrame

DoFinish ==
    /\ Advance("finish", Finish(self, env), "done")
    /\ CtorFrame /\ UNCHANGED <<last, calls>>

NextCtor ==
    \/ DoPackageBoundInit
    \/ DoSetStatic
    \/ DoResolveInstancePath
    \/ DoMakeConfig
    \/ DoCreateUrlMap
    \/ DoCreateRegistries
    \/ DoAddStaticRule
    \/ DoFinish

Units == {"u1", "u2"}

NoContexts ==
    /\ app_ctx_stack = [u \in Units |-> <<>>]
    /\ pushed = [u \in Units |-> 0]
    /\ popped = [u \in Units |-> 0]

\* Flask(import_name, ...) has been called and no statement has run yet.
InitCtor ==
    /\ args \in CtorArgs
    /\ env \in Envs
    /\ pc = "pkg"
    /\ self = <<>>
    /\ exc = NoExc
    /\ last = NoCall
    /\ calls = 0
    /\ req = Idle
    /\ NoContexts

SpecCtor == InitCtor /\ [][NextCtor]_vars

-----------------------------------------------------------------------------
(* The constructed application: registration and dispatch *)

\* A call of a setupmethod-wrapped registration method.  Between requests, or
\* from the handler of the request in flight.
SetupCall ==
    /\ pc = "done"
    /\ calls < MaxCalls
    /\ req.pc \in {"idle", "handling"}
    /\ \E method \in Methods : \E x \in Inputs(method) :
           LET r == wrapper_func(self, method, x) IN
           /\ self' = r.obj
           /\ last' = Called(self, method, x, r)
    /\ calls' = calls + 1
    /\ UNCHANGED <<args, env, pc, exc, req, app_ctx_stack, pushed, popped>>

\* The dispatcher takes a request: the first one ends the setup phase.
BeginRequest ==
    /\ pc = "done"
    /\ req.pc = "idle"
    /\ self' = SetAttr(self, "_got_first_request", TRUE)
    /\ req' = [pc |-> "handling", outcome |-> "none", ran |-> <<>>]
    /\ UNCHANGED <<args, env, pc, exc, last, calls, app_ctx_stack, pushed, popped>>

\* The matched handler returns or raises.
RunHandler ==
    /\ req.pc = "handling"
    /\ \E o \in {"returned", "raised"} :
           req' = [req EXCEPT !.pc = "pop_request", !.outcome = o]
    /\ UNCHANGED <<args, env, pc, self, exc, last, calls, app_ctx_stack, pushed, popped>>

\* The request teardown hooks, in the order the dispatcher runs them.
TeardownRequestFuncs(obj) ==
    LET d == obj["_teardown_request_funcs"]
    IN  IF None \in DOMAIN d THEN d[None] ELSE <<>>

TeardownAppcontextFuncs_OnSuccessOnly(obj, outcome) ==
    IF outcome = "raised" THEN <<>> ELSE obj["_teardown_appcontext_funcs"]

\* The application-context teardown hooks the pop runs, whatever the outcome.
TeardownAppcontextFuncs(obj, outcome) == obj["_teardown_appcontext_funcs"]

\* The request context is popped: its teardown hooks run.
DoTeardownRequest ==
    /\ req.pc = "pop_request"
    /\ req' = [req EXCEPT !.pc = "pop_app",
                          !.ran = req.ran \o TeardownRequestFuncs(self)]
    /\ UNCHANGED <<args, env, pc, self, exc, last, calls, app_ctx_stack, pushed, popped>>

\* The application context the request pushed is popped: its teardown hooks run.
DoTeardownAppcontext ==
    /\ req.pc = "pop_app"
    /\ req' = [req EXCEPT !.pc = "finalize",
                          !.ran = req.ran \o TeardownAppcontextFuncs(self, req.outcome)]
    /\ UNCHANGED <<args, env, pc, self, exc, last, calls, app_ctx_stack, pushed, popped>>

\* The response goes out, or the handler's error is converted or propagates.
FinalizeRequest ==
    /\ req.pc = "finalize"
    /\ req' = Idle
    /\ UNCHANGED <<args, env, pc, self, exc, last, calls, app_ctx_stack, pushed, popped>>

Next ==
    \/ SetupCall
    \/ BeginRequest
    \/ RunHandler
    \/ DoTeardownRequest
    \/ DoTeardownAppcontext
    \/ FinalizeRequest

\* The arguments of Flask(import_name, static_folder=None).
AppArgs ==
    {a \in CtorArgs : /\ a.static_url_path = None
                      /\ a.static_folder = None
                      /\ a.instance_path = None
                      /\ ~a.host_matching
                      /\ ~a.subdomain_matching
                      /\ ~a.instance_relative_config}

\* The package is not installed under a prefix; debug is on or off.
AppEnvs == {e \in Envs : e.map_converters = LibraryConverters /\ e.found.prefix = None}

\* The state after construction: Flask.__init__ has returned.
Init ==
    /\ args \in AppArgs
    /\ env \in AppEnvs
    /\ Construct(args, env).exc = NoExc
    /\ self = Construct(args, env).obj
    /\ pc = "done"
    /\ exc = NoExc
    /\ last = NoCall
    /\ calls = 0
    /\ req = Idle
    /\ NoContexts

Spec == Init /\ [][Next]_vars

-----------------------------------------------------------------------------
(* The application-context stack of each execution unit *)

\* The most application contexts one execution unit pushes.
MaxPush == 3

Push(stack, ctx) == Append(stack, ctx)

Pop_Bottom(stack) == Tail(stack)

\* pop(): the top of the stack goes
Pop(stack) == SubSeq(stack, 1, Len(stack) - 1)

\* top: the context a "current app" lookup answers with, None on an empty stack
\* (the lookup then fails with a context-missing error)
Top(stack) == IF stack = <<>> THEN None ELSE stack[Len(stack)]

\* app.app_context().push() in unit u: always a new context instance.  nth is
\* the number of the push in its unit, depth the nesting level it opens.
PushAppContext(u) ==
    /\ pc = "done"
    /\ pushed[u] < MaxPush
    /\ app_ctx_stack' = [app_ctx_stack EXCEPT ![u] =
           Push(@, [tag |-> "AppContext", app |-> self.name, unit |-> u,
                    nth |-> pushed[u] + 1, depth |-> Len(@) + 1])]
    /\ pushed' = [pushed EXCEPT ![u] = @ + 1]
    /\ UNCHANGED <<args, env, pc, self, exc, last, calls, req, popped>>

\* The pop of the context unit u pushed last.
PopAppContext(u) ==
    /\ app_ctx_stack[u] # <<>>
    /\ app_ctx_stack' = [app_ctx_stack EXCEPT ![u] = Pop(@)]
    /\ popped' = [popped EXCEPT ![u] = @ + 1]
    /\ UNCHANGED <<args, env, pc, self, exc, last, calls, req, pushed>>

NextCtx == \E u \in Units : PushAppContext(u) \/ PopAppContext(u)

SpecCtx == Init /\ [][NextCtx]_vars

-----------------------------------------------------------------------------
(* Construction: the converters, the instance path *)

\* The statements of __init__ up to self.instance_path = instance_path have
\* not all run yet.
BeforeInstancePath == pc \in {"pkg", "static", "instance_path"}

\* The converter variants, by the name a rule names them with.
VariantOf ==
    [string |-> "UnicodeConverter", int |-> "IntegerConverter",
     float |-> "FloatConverter", path |-> "PathConverter",
     uuid |-> "UUIDConverter", any |-> "AnyConverter"]

\* C5: after a construction that completes, the rule map has a converter under
\* each of string, int, float, path, uuid and any, the one of that variant, and
\* default names the same converter as string, the String converter.
C5_ConvertersRegistered ==
    pc = "done" =>
        LET c == self.url_map.converters IN
        /\ \A n \in DOMAIN VariantOf : n \in DOMAIN c /\ c[n] = VariantOf[n]
        /\ "default" \in DOMAIN c
        /\ c["default"] = c["string"]
        /\ c["default"] = "UnicodeConverter"

\* C5's case: construction completed on a rule map that came with no converters.
C5_Witness == pc = "done" /\ env.map_converters = <<>>

\* What the instance path is to be when none is given: <package_path>/instance
\* with no prefix, <prefix>/var/<name>-instance otherwise.
ExpectedInstancePath ==
    IF env.found.prefix = None
    THEN Path(TRUE, env.found.package_path.parts \o <<"instance">>)
    ELSE Path(TRUE, env.found.prefix.parts
                    \o <<"var", args.import_name \o "-instance">>)

\* C7: constructed without an instance_path, the application gets past the
\* instance-path statements with instance_path located as ExpectedInstancePath:
\* auto_find_instance_path finds every attribute it reads (import_name, name)
\* assigned and raises nothing.
C7_AutoInstancePath ==
    (args.instance_path = None /\ ~BeforeInstancePath) =>
        /\ exc.type # "AttributeError" \/ exc.line \notin {265, 270}
        /\ HasAttr(self, "instance_path")
        /\ self.instance_path = ExpectedInstancePath

\* The attributes __init__ assigns after self.instance_path.
LaterAttrs ==
    {"config", "_view_functions", "_error_handlers", "url_map",
     "_before_request_funcs", "_after_request_funcs", "_teardown_request_funcs",
     "_teardown_appcontext_funcs", "_got_first_request", "name", "debug"}

\* C8: a relative instance_path ends construction with the ValueError of line
\* 186 before the config, the rule map, a hook registry or the static rule
\* exists; an absolute one is stored as it was given and stays so.
C8_InstancePathChecked ==
    args.instance_path # None =>
        IF isabs(args.instance_path)
        THEN /\ HasAttr(self, "instance_path") => self.instance_path = args.instance_path
             /\ ~BeforeInstancePath =>
                    HasAttr(self, "instance_path") /\ exc.type # "ValueError"
        ELSE /\ ~HasAttr(self, "instance_path")
             /\ ~BeforeInstancePath =>
                    /\ pc = "raised"
                    /\ exc = Exc("ValueError", 186)
                    /\ DOMAIN self \cap LaterAttrs = {}
                    /\ calls = 0

\* C8's case: a relative instance_path was given and construction has ended.
C8_Witness ==
    /\ args.instance_path = Rel("inst")
    /\ pc = "raised"
    /\ exc.type = "ValueError"

-----------------------------------------------------------------------------
(* The setup phase *)

GotFirstRequest == self["_got_first_request"]

\* A step that is a setupmethod-wrapped call.
IsSetupCall == calls' # calls

\* C1: with debug on, a registration call made once the first request has been
\* dispatched ends in the AssertionError of line 62, whichever of the six
\* methods it is and whatever was registered or dispatched before.
C1_RejectedAfterFirstRequestInDebug ==
    [][(IsSetupCall /\ self.debug /\ GotFirstRequest)
          => (last'.exc = Exc("AssertionError", 62) /\ last'.invoked = 0)]_vars

\* C1's case: a registration method was called after the first request, in
\* debug mode, and the call was rejected.
C1_Witness ==
    /\ self.debug
    /\ last.after_first
    /\ last.method = "errorhandler"
    /\ last.exc.type = "AssertionError"

\* C2 as claimed: once the first request has been dispatched the rule map takes
\* no further rule, debug mode or not.
C2_NoRuleAfterFirstRequest ==
    [][GotFirstRequest => self'.url_map.rules = self.url_map.rules]_vars

\* C2 as amended: once the first request has been dispatched, an add_url_rule
\* call is rejected with the rule map as it was when debug is on, and adds its
\* rule when debug is off: what enforces the setup phase is debug and
\* _got_first_request together.
C2_RuleAddingGuardedByDebug ==
    [][(IsSetupCall /\ last'.method = "add_url_rule" /\ GotFirstRequest)
          => IF self.debug
             THEN /\ last'.exc.type = "AssertionError"
                  /\ self'.url_map = self.url_map
             ELSE /\ last'.exc = NoExc
                  /\ Len(self'.url_map.rules) = Len(self.url_map.rules) + 1
                  /\ self'.url_map.rules[Len(self'.url_map.rules)].rule = last'.x.rule]_vars

\* C2's case: a rule went into the map while a request was being handled,
\* debug off.
C2_Witness ==
    /\ ~self.debug
    /\ req.pc = "handling"
    /\ last.method = "add_url_rule"
    /\ last.after_first
    /\ last.exc = NoExc
    /\ self.url_map.rules # <<>>

-----------------------------------------------------------------------------
(* Teardown *)

Registered(d) == IF None \in DOMAIN d THEN d[None] ELSE <<>>

-----------------------------------------------------------------------------
(* Context nesting *)

\* The "current app" lookup of unit u.
CurrentApp(u) == Top(app_ctx_stack[u])

\* C3: in each unit the stack holds the contexts pushed and not yet popped,
\* innermost last: as many pops as pushes leave it empty, a lookup at nesting
\* level i answers with the context whose push opened level i, and a push or
\* pop of one unit leaves the stacks of the others alone.
C3_ContextNesting ==
    /\ [](\A u \in Units :
            LET st == app_ctx_stack[u] IN
            /\ Len(st) = pushed[u] - popped[u]
            /\ \A i \in 1..Len(st) : st[i].depth = i /\ st[i].unit = u
            /\ \A i, j \in 1..Len(st) : i < j => st[i].nth < st[j].nth
            /\ st # <<>> => CurrentApp(u) = st[Len(st)] /\ CurrentApp(u).depth = Len(st)
            /\ st = <<>> => CurrentApp(u) = None)
    /\ [][\A u \in Units :
            app_ctx_stack'[u] # app_ctx_stack[u]
                => \A v \in Units \ {u} : app_ctx_stack'[v] = app_ctx_stack[v]]_vars

\* C3's case: a unit is back at an empty stack after three nested pushes and
\* three pops while the other unit holds two contexts.
C3_Witness ==
    /\ pushed["u1"] = 3 /\ popped["u1"] = 3
    /\ app_ctx_stack["u1"] = <<>>
    /\ Len(app_ctx_stack["u2"]) = 2

====
